---- MODULE Spec2Model ----
(***************************************************************************)
(* The FastAPI/Supabase gateway: two resources (items, users), each with a *)
(* list and a create endpoint, the root endpoint, and the not-found        *)
(* middleware wrapped around the router.  The store is the remote Supabase *)
(* service: its tables and the way it answers a call are the environment.  *)
(***************************************************************************)
EXTENDS Integers, Sequences, FiniteSets, TLC

(***************************************************************************)
(* JSON values.  A number is kept in tenths (1.5 is 15), so that an        *)
(* integral number and a fractional one can be told apart; a key that a    *)
(* dict does not carry maps to Absent.                                     *)
(***************************************************************************)
Absent == [k |-> "absent", n |-> 0, s |-> ""]

Null == [k |-> "null", n |-> 0, s |-> ""]

Num(t) == [k |-> "num", n |-> t, s |-> ""]

Str(x) == [k |-> "str", n |-> 0, s |-> x]

\* The keys a request body or a store record may carry: the declared fields
\* of the two models and one key neither model declares.
Keys == {"id", "name", "description", "price", "tax", "age", "extra"}

EmptyDict == [f \in Keys |-> Absent]

\* dict literal: d with key f set to v
With(d, f, v) == [d EXCEPT ![f] = v]

(***************************************************************************)
(* The models (pydantic BaseModel, default configuration: values are       *)
(* coerced in lax mode, undeclared keys are ignored).                      *)
(***************************************************************************)
ItemFields == {"id", "name", "description", "price", "tax"}

UserFields == {"id", "name", "description", "age"}

\* Item with price declared optional
ItemTypeOptionalPrice(f) ==
    CASE f = "id" -> [t |-> "int", optional |-> TRUE]
      [] f = "name" -> [t |-> "str", optional |-> FALSE]
      [] f = "description" -> [t |-> "str", optional |-> TRUE]
      [] f = "price" -> [t |-> "float", optional |-> TRUE]
      [] f = "tax" -> [t |-> "float", optional |-> TRUE]

\* the declared type of each field of class Item
ItemType(f) ==
    CASE f = "id" -> [t |-> "int", optional |-> TRUE]
      [] f = "name" -> [t |-> "str", optional |-> FALSE]
      [] f = "description" -> [t |-> "str", optional |-> TRUE]
      [] f = "price" -> [t |-> "float", optional |-> FALSE]
      [] f = "tax" -> [t |-> "float", optional |-> TRUE]

\* the declared type of each field of class User
UserType(f) ==
    CASE f = "id" -> [t |-> "int", optional |-> TRUE]
      [] f = "name" -> [t |-> "str", optional |-> FALSE]
      [] f = "description" -> [t |-> "str", optional |-> TRUE]
      [] f = "age" -> [t |-> "int", optional |-> TRUE]

Models == {"Item", "User"}

FieldsOf(model) == IF model = "Item" THEN ItemFields ELSE UserFields

TypeOf(model, f) == IF model = "Item" THEN ItemType(f) ELSE UserType(f)

\* The strings of the model's universe that read as a number, with their
\* value in tenths; every other string is not numeric.
NumericStrings == {"7"}

ParseNum(x) == CASE x = "7" -> 70 [] OTHER -> 0

\* a coercion that takes any number for an int
CoerceTruncating(t, v) ==
    CASE t = "str" ->
           IF v.k = "str" THEN [ok |-> TRUE, v |-> v] ELSE [ok |-> FALSE, v |-> Null]
      [] t = "float" ->
           IF v.k = "num" THEN [ok |-> TRUE, v |-> v]
           ELSE IF v.k = "str" /\ v.s \in NumericStrings
                THEN [ok |-> TRUE, v |-> Num(ParseNum(v.s))]
                ELSE [ok |-> FALSE, v |-> Null]
      [] t = "int" ->
           IF v.k = "num" THEN [ok |-> TRUE, v |-> Num(v.n - (v.n % 10))]
           ELSE IF v.k = "str" /\ v.s \in NumericStrings /\ ParseNum(v.s) % 10 = 0
                THEN [ok |-> TRUE, v |-> Num(ParseNum(v.s))]
                ELSE [ok |-> FALSE, v |-> Null]

\* Coercion of one present, non-null value to a declared type:
\* [ok |-> whether it validates, v |-> the coerced value].
Coerce(t, v) ==
    CASE t = "str" ->
           IF v.k = "str" THEN [ok |-> TRUE, v |-> v] ELSE [ok |-> FALSE, v |-> Null]
      [] t = "float" ->
           IF v.k = "num" THEN [ok |-> TRUE, v |-> v]
           ELSE IF v.k = "str" /\ v.s \in NumericStrings
                THEN [ok |-> TRUE, v |-> Num(ParseNum(v.s))]
                ELSE [ok |-> FALSE, v |-> Null]
      [] t = "int" ->
           IF v.k = "num" /\ v.n % 10 = 0 THEN [ok |-> TRUE, v |-> v]
           ELSE IF v.k = "str" /\ v.s \in NumericStrings /\ ParseNum(v.s) % 10 = 0
                THEN [ok |-> TRUE, v |-> Num(ParseNum(v.s))]
                ELSE [ok |-> FALSE, v |-> Null]

\* Validation of one field of a dict against its declaration.
ValidateField(ty, v) ==
    IF v.k = "absent" THEN [ok |-> ty.optional, v |-> Null]
    ELSE IF v.k = "null" THEN [ok |-> ty.optional, v |-> Null]
    ELSE Coerce(ty.t, v)

\* Model(**d): whether the dict validates ...
Valid(model, d) == \A f \in FieldsOf(model) : ValidateField(TypeOf(model, f), d[f]).ok

\* ... and the instance it makes: one value per declared field, None (Null)
\* for an optional field left unset; undeclared keys are dropped.
Construct(model, d) ==
    [f \in Keys |-> IF f \in FieldsOf(model)
                    THEN ValidateField(TypeOf(model, f), d[f]).v
                    ELSE Absent]

\* a dict that leaves tax out as well
DictWithoutTax(e) ==
    [f \in Keys |-> IF e[f].k = "null" \/ f = "tax" THEN Absent ELSE e[f]]

\* model.dict(exclude_none=True)
DictExcludeNone(e) == [f \in Keys |-> IF e[f].k = "null" THEN Absent ELSE e[f]]

(***************************************************************************)
(* Routing.  A path is its segments and whether it ends in a slash:        *)
(* "/items/" is <<"items">> with a slash, "/items" the same without, "/"   *)
(* no segment with a slash.                                                *)
(***************************************************************************)
Path(segs, slash) == [segs |-> segs, slash |-> slash]

RootPath == Path(<<>>, TRUE)

\* The routes in registration order: the items router, the users router,
\* then the root endpoint.
Routes ==
    << [method |-> "GET", path |-> Path(<<"items">>, TRUE), endpoint |-> "read_items"],
       [method |-> "POST", path |-> Path(<<"items">>, TRUE), endpoint |-> "create_item"],
       [method |-> "GET", path |-> Path(<<"users">>, TRUE), endpoint |-> "read_users"],
       [method |-> "POST", path |-> Path(<<"user">>, TRUE), endpoint |-> "create_user"],
       [method |-> "GET", path |-> RootPath, endpoint |-> "root"] >>

RouteIdx == 1..Len(Routes)

FullMatch(method, path) ==
    {i \in RouteIdx : Routes[i].path = path /\ Routes[i].method = method}

PathMatch(path) == {i \in RouteIdx : Routes[i].path = path}

ToggleSlash(path) == Path(path.segs, ~path.slash)

\* The router's decision: the endpoint of the first full match; 405 when
\* only the path matches; a redirect when the path with its trailing slash
\* toggled matches a route; otherwise not found.
Dispatch(method, path) ==
    IF FullMatch(method, path) # {}
    THEN Routes[CHOOSE i \in FullMatch(method, path) :
                   \A j \in FullMatch(method, path) : i <= j].endpoint
    ELSE IF PathMatch(path) # {} THEN "405"
    ELSE IF path # RootPath /\ PathMatch(ToggleSlash(path)) # {} THEN "307"
    ELSE "404"

\* every service on the items table
TableOfItems(endpoint) == "items"

\* What each endpoint works on: its model, its table, its kind.
ModelOf(endpoint) == IF endpoint \in {"read_items", "create_item"} THEN "Item" ELSE "User"

TableOf(endpoint) == IF endpoint \in {"read_items", "create_item"} THEN "items" ELSE "users"

ListEndpoints == {"read_items", "read_users"}

CreateEndpoints == {"create_item", "create_user"}

(***************************************************************************)
(* Responses: status, content type, and a body that is a text, a single    *)
(* entity or a sequence of entities (shape says which).                    *)
(***************************************************************************)
Response(status, ctype, shape, text, ents) ==
    [status |-> status, ctype |-> ctype, shape |-> shape, text |-> text, ents |-> ents]

NoResponse == Response(0, "", "none", "", <<>>)

JsonType == "application/json"

HTTP_404_NOT_FOUND == 404

\* the framework's answers
DefaultNotFound == Response(HTTP_404_NOT_FOUND, JsonType, "detail", "Not Found", <<>>)

MethodNotAllowed == Response(405, JsonType, "detail", "Method Not Allowed", <<>>)

SlashRedirect == Response(307, "", "redirect", "", <<>>)

Unprocessable == Response(422, JsonType, "errors", "", <<>>)

ServerError == Response(500, "text/plain", "text", "Internal Server Error", <<>>)

\* the endpoints' answers
RootResponse == Response(200, JsonType, "message", "Hello from FastAPI with Supabase!", <<>>)

ListResponse(ents) == Response(200, JsonType, "list", "", ents)

CreatedResponse(e) == Response(201, JsonType, "entity", "", <<e>>)

\* the fixed payload sent as JSON
WrongQueryAsJson == Response(HTTP_404_NOT_FOUND, JsonType, "text", "Sorry, wrong query", <<>>)

\* the middleware's answer
WrongQuery == Response(HTTP_404_NOT_FOUND, "text/plain", "text", "Sorry, wrong query", <<>>)

(***************************************************************************)
(* The store.  A table is the sequence of its rows, in the order a         *)
(* read-all returns them.  A row carries every column of its table (null   *)
(* where nothing was written); the id is the submitted one when the record *)
(* carries an id and the next serial number otherwise.                     *)
(***************************************************************************)
Tables == {"items", "users"}

Columns(t) == IF t = "items" THEN ItemFields ELSE UserFields

Max(S) == IF S = {} THEN 0 ELSE CHOOSE x \in S : \A y \in S : y <= x

NextId(rows) == Max({rows[i]["id"].n : i \in DOMAIN rows}) + 10

StoredRow(t, rec, rows) ==
    [f \in Keys |->
        IF f \notin Columns(t) THEN Absent
        ELSE IF rec[f].k # "absent" THEN rec[f]
        ELSE IF f = "id" THEN Num(NextId(rows))
        ELSE Null]

\* How the store answers one call: it serves it, it reports zero created
\* records for an insert, or the call raises.
StoreReplies == {"ok", "zero", "raise"}

NoReply == [kind |-> "none", data |-> <<>>]

DataReply(rows) == [kind |-> "data", data |-> rows]

ErrorReply == [kind |-> "error", data |-> <<>>]

\* table(t).select("*").execute()
SelectReply(mode, rows) == IF mode = "raise" THEN ErrorReply ELSE DataReply(rows)

\* table(t).insert(rec).execute(): the reply, and the table afterwards
InsertReply(mode, t, rec, rows) ==
    CASE mode = "ok" -> DataReply(<<StoredRow(t, rec, rows)>>)
      [] mode = "zero" -> DataReply(<<>>)
      [] mode = "raise" -> ErrorReply

InsertEffect(mode, t, rec, rows) ==
    IF mode = "ok" THEN Append(rows, StoredRow(t, rec, rows)) ELSE rows

(***************************************************************************)
(* The services: what a handler makes of the store's reply.  An exception  *)
(* is the result [kind |-> "exc"].                                         *)
(***************************************************************************)
Returned(resp) == [kind |-> "resp", resp |-> resp]

Raised == [kind |-> "exc", resp |-> NoResponse]

Pending == [kind |-> "none", resp |-> NoResponse]

\* [Model(**row) for row in data]
ConvertAll(model, data) == [i \in DOMAIN data |-> Construct(model, data[i])]

AllValid(model, data) == \A i \in DOMAIN data : Valid(model, data[i])

\* a list that answers an empty table with a 404
get_from_supabase_404_on_empty(model, reply) ==
    IF reply.kind = "error" THEN Raised
    ELSE IF ~AllValid(model, reply.data) THEN Raised
    ELSE IF reply.data = <<>> THEN Returned(DefaultNotFound)
    ELSE Returned(ListResponse(ConvertAll(model, reply.data)))

\* a list that skips the records that do not convert
IsValidRow(model, row) == Valid(model, row)

get_from_supabase_skipping(model, reply) ==
    IF reply.kind = "error" THEN Raised
    ELSE Returned(ListResponse(ConvertAll(model,
             SelectSeq(reply.data, LAMBDA row : IsValidRow(model, row)))))

\* get_items_from_supabase / get_users_from_supabase behind its route
get_from_supabase(model, reply) ==
    IF reply.kind = "error" THEN Raised
    ELSE IF ~AllValid(model, reply.data) THEN Raised
    ELSE Returned(ListResponse(ConvertAll(model, reply.data)))

\* a create that answers an empty data with an empty success
create_in_supabase_silent(model, reply) ==
    IF reply.kind = "error" THEN Raised
    ELSE IF Len(reply.data) = 0 THEN Returned(Response(201, JsonType, "entity", "", <<>>))
    ELSE IF ~Valid(model, reply.data[1]) THEN Raised
    ELSE Returned(CreatedResponse(Construct(model, reply.data[1])))

\* create_item_in_supabase / create_user_in_supabase behind its route:
\* response.data[0] raises on an empty data
create_in_supabase(model, reply) ==
    IF reply.kind = "error" THEN Raised
    ELSE IF Len(reply.data) = 0 THEN Raised
    ELSE IF ~Valid(model, reply.data[1]) THEN Raised
    ELSE Returned(CreatedResponse(Construct(model, reply.data[1])))

(***************************************************************************)
(* The not-found middleware, after call_next has returned or raised.       *)
(***************************************************************************)
\* a middleware that rewrites every client error
RewriteClientErrors(response) ==
    IF response.status >= 400 /\ response.status < 500 THEN WrongQuery ELSE response

Rewrite(response) ==
    IF response.status = HTTP_404_NOT_FOUND THEN WrongQuery ELSE response

\* what the middleware does: it re-raises an exception of the inner chain,
\* and returns the (possibly rewritten) response otherwise
not_found_middleware(inner) ==
    IF inner.kind = "exc" THEN Raised ELSE Returned(Rewrite(inner.resp))

\* what the client gets: the server answers an unhandled exception with 500
ServerResponse(outcome) ==
    IF outcome.kind = "exc" THEN ServerError ELSE outcome.resp

(***************************************************************************)
(* The requests the clients send.                                          *)
(***************************************************************************)
Methods == {"GET", "POST", "DELETE"}

ItemsPath == Path(<<"items">>, TRUE)

ItemPath == Path(<<"item">>, TRUE)

UsersPath == Path(<<"users">>, TRUE)

UserPath == Path(<<"user">>, TRUE)

Paths ==
    {RootPath, ItemsPath, ItemPath, UsersPath, UserPath,
     Path(<<"items">>, FALSE), Path(<<"nope">>, TRUE), Path(<<"nope">>, FALSE)}

\* a well-formed draft of each model, and the values a client may put in
\* one of its fields instead
ItemBase == With(With(EmptyDict, "name", Str("a")), "price", Num(15))

UserBase == With(EmptyDict, "name", Str("a"))

BaseOf(model) == IF model = "Item" THEN ItemBase ELSE UserBase

Values == {Absent, Null, Num(20), Num(25), Str("7"), Str("x")}

BodiesOf(model) ==
    {BaseOf(model)} \cup
    {With(BaseOf(model), f, v) : f \in FieldsOf(model) \cup {"extra"}, v \in Values}

Req(method, path, body, storeReply) ==
    [method |-> method, path |-> path, body |-> body, storeReply |-> storeReply]

\* every method on every path, without a body
RoutingRequests == {Req(m, p, EmptyDict, "ok") : m \in Methods, p \in Paths}

\* a list whose read the store fails
FailedReads == {Req("GET", p, EmptyDict, "raise") : p \in {ItemsPath, UsersPath}}

\* a create with each body, each way the store may answer the insert
CreateRequests ==
    {Req("POST", ItemsPath, b, sr) : b \in BodiesOf("Item"), sr \in StoreReplies} \cup
    {Req("POST", UserPath, b, sr) : b \in BodiesOf("User"), sr \in StoreReplies}

\* a create sent to the singular items path
SingularRequests ==
    {Req("POST", ItemPath, b, sr) :
        b \in {ItemBase, With(ItemBase, "price", Absent)}, sr \in StoreReplies}

Requests == RoutingRequests \cup FailedReads \cup CreateRequests \cup SingularRequests

\* the requests of the concurrent runs
CoreRequests ==
    {Req("GET", p, EmptyDict, "ok") : p \in {ItemsPath, UsersPath, Path(<<"nope">>, TRUE)}} \cup
    {Req("POST", ItemsPath, ItemBase, sr) : sr \in StoreReplies} \cup
    {Req("POST", ItemsPath, With(ItemBase, "price", Absent), "ok")} \cup
    {Req("POST", UserPath, UserBase, sr) : sr \in {"ok", "zero"}}

\* what the tables hold when the process starts
ItemRow(id, name, price, tax) ==
    [f \in Keys |-> CASE f = "id" -> id [] f = "name" -> name [] f = "price" -> price
                      [] f = "tax" -> tax [] f = "description" -> Null [] OTHER -> Absent]

UserRow(id, name, age) ==
    [f \in Keys |-> CASE f = "id" -> id [] f = "name" -> name [] f = "age" -> age
                      [] f = "description" -> Null [] OTHER -> Absent]

GoodItem1 == ItemRow(Num(10), Str("a"), Num(15), Null)

GoodItem2 == ItemRow(Num(20), Str("b"), Num(20), Num(5))

NamelessItem == ItemRow(Num(20), Null, Num(20), Null)

MispricedItem == ItemRow(Num(10), Str("b"), Str("x"), Null)

GoodUser == UserRow(Num(10), Str("a"), Num(300))

AgelessUser == UserRow(Num(20), Str("b"), Str("x"))

TextPricedItem == ItemRow(Num(30), Str("c"), Str("7"), Null)

SeedTables ==
    { [items |-> <<>>, users |-> <<>>],
      [items |-> <<GoodItem1, GoodItem2>>, users |-> <<GoodUser>>],
      [items |-> <<GoodItem1, NamelessItem>>, users |-> <<GoodUser, AgelessUser>>],
      [items |-> <<MispricedItem, GoodItem1>>, users |-> <<>>],
      [items |-> <<TextPricedItem, GoodItem2>>, users |-> <<GoodUser>>] }

(***************************************************************************)
(* State.                                                                  *)
(***************************************************************************)
VARIABLES
    reqs,     \* per request slot: the request and how far its handling is
    tables,   \* the store's tables
    seeded    \* the tables as they were when the process started

vars == <<reqs, tables, seeded>>

\* the number of requests in flight together in a run of SpecConc
NumConc == 2

Idle ==
    [pc |-> "idle", method |-> "", path |-> RootPath, body |-> EmptyDict,
     storeReply |-> "ok", calls |-> 0, endpoint |-> "", arg |-> EmptyDict,
     ops |-> <<>>, reply |-> NoReply, pos |-> 0, inner |-> Pending, mw |-> Pending,
     out |-> NoResponse]

Init ==
    /\ reqs = <<Idle>>
    /\ tables \in SeedTables
    /\ seeded = tables

InitConc ==
    /\ reqs = [r \in 1..NumConc |-> Idle]
    /\ tables \in SeedTables
    /\ seeded = tables

Slots == DOMAIN reqs

(***************************************************************************)
(* Steps of one request.                                                   *)
(***************************************************************************)
\* the request enters the middleware (PRE)
Arrive(r, q) ==
    /\ reqs[r].pc = "idle"
    /\ reqs' = [reqs EXCEPT ![r] =
                  [Idle EXCEPT !.pc = "pre", !.method = q.method, !.path = q.path,
                               !.body = q.body, !.storeReply = q.storeReply]]
    /\ UNCHANGED <<tables, seeded>>

\* What the inner chain does before any handler body runs: routing, then
\* for a create endpoint the validation of the body against its model.
Routed(q) ==
    LET e == Dispatch(q.method, q.path) IN
    CASE e = "404" -> [q EXCEPT !.pc = "post", !.inner = Returned(DefaultNotFound)]
      [] e = "405" -> [q EXCEPT !.pc = "post", !.inner = Returned(MethodNotAllowed)]
      [] e = "307" -> [q EXCEPT !.pc = "post", !.inner = Returned(SlashRedirect)]
      [] e = "root" -> [q EXCEPT !.pc = "post", !.endpoint = e, !.inner = Returned(RootResponse)]
      [] e \in ListEndpoints -> [q EXCEPT !.pc = "handler", !.endpoint = e]
      [] e \in CreateEndpoints ->
           IF Valid(ModelOf(e), q.body)
           THEN [q EXCEPT !.pc = "handler", !.endpoint = e,
                          !.arg = Construct(ModelOf(e), q.body)]
           ELSE [q EXCEPT !.pc = "post", !.endpoint = e, !.inner = Returned(Unprocessable)]

\* the middleware awaits call_next(request)
CallNext(r) ==
    /\ reqs[r].pc = "pre"
    /\ reqs' = [reqs EXCEPT ![r] = [Routed(reqs[r]) EXCEPT !.calls = @ + 1]]
    /\ UNCHANGED <<tables, seeded>>

\* the store operation a handler issues
StoreOp(q) ==
    IF q.endpoint \in ListEndpoints
    THEN [op |-> "select", table |-> TableOf(q.endpoint), rec |-> EmptyDict]
    ELSE [op |-> "insert", table |-> TableOf(q.endpoint), rec |-> DictExcludeNone(q.arg)]

\* the ops a handler issues, given those it has issued
Issue(ops, o) == Append(ops, o)

\* the service calls the store, which serves the call at once
StoreCall(r) ==
    LET q == reqs[r]
        o == StoreOp(q)
        rows == tables[o.table]
    IN /\ q.pc = "handler"
       /\ IF o.op = "select"
          THEN /\ reqs' = [reqs EXCEPT ![r] =
                             [q EXCEPT !.pc = "reply", !.ops = Issue(@, o),
                                       !.reply = SelectReply(q.storeReply, rows)]]
               /\ tables' = tables
          ELSE /\ reqs' = [reqs EXCEPT ![r] =
                             [q EXCEPT !.pc = "reply", !.ops = Issue(@, o),
                                       !.reply = InsertReply(q.storeReply, o.table, o.rec, rows),
                                       !.pos = IF q.storeReply = "ok" THEN Len(rows) + 1 ELSE 0]]
               /\ tables' = [tables EXCEPT ![o.table] =
                                InsertEffect(q.storeReply, o.table, o.rec, rows)]
       /\ UNCHANGED seeded

\* the service converts the reply and the handler returns or raises
HandlerReturn(r) ==
    LET q == reqs[r] IN
    /\ q.pc = "reply"
    /\ reqs' = [reqs EXCEPT ![r] =
                  [q EXCEPT !.pc = "post",
                            !.inner = IF q.endpoint \in ListEndpoints
                                      THEN get_from_supabase(ModelOf(q.endpoint), q.reply)
                                      ELSE create_in_supabase(ModelOf(q.endpoint), q.reply)]]
    /\ UNCHANGED <<tables, seeded>>

\* the middleware resumes (POST) and the client gets its response
MiddlewarePost(r) ==
    LET q == reqs[r] IN
    /\ q.pc = "post"
    /\ reqs' = [reqs EXCEPT ![r] =
                  [q EXCEPT !.pc = "done", !.mw = not_found_middleware(q.inner),
                            !.out = ServerResponse(not_found_middleware(q.inner))]]
    /\ UNCHANGED <<tables, seeded>>

Next ==
    \E r \in Slots :
        \/ \E q \in Requests : Arrive(r, q)
        \/ CallNext(r)
        \/ StoreCall(r)
        \/ HandlerReturn(r)
        \/ MiddlewarePost(r)

NextConc ==
    \E r \in Slots :
        \/ \E q \in CoreRequests : Arrive(r, q)
        \/ CallNext(r)
        \/ StoreCall(r)
        \/ HandlerReturn(r)
        \/ MiddlewarePost(r)

\* one request, any request of the universe, against any starting tables
Spec == Init /\ [][Next]_vars

\* requests in flight together
SpecConc == InitConc /\ [][NextConc]_vars

TypeOK ==
    /\ \A r \in Slots : reqs[r].pc \in {"idle", "pre", "handler", "reply", "post", "done"}
    /\ \A t \in Tables : Len(tables[t]) >= Len(seeded[t])

(***************************************************************************)
(* Properties.                                                             *)
(***************************************************************************)
Done(r) == reqs[r].pc = "done"

\* a create whose body passed validation: its handler body runs
Accepted(r) ==
    /\ reqs[r].endpoint \in CreateEndpoints
    /\ reqs[r].pc \in {"handler", "reply", "post", "done"}
    /\ reqs[r].inner # Returned(Unprocessable)

ServerErrorClass == 500..599

SuccessClass == 200..299

\* the response the claims about unmatched requests name
IsWrongQuery(resp) ==
    /\ resp.status = 404
    /\ resp.ctype = "text/plain"
    /\ resp.shape = "text"
    /\ resp.text = "Sorry, wrong query"

\* C1 as stated: every request whose (method, path) pair is not a registered
\* route, a registered path with an unregistered method included, is answered
\* 404 with the plain-text body "Sorry, wrong query".
C1_Original ==
    \A r \in Slots :
        (Done(r) /\ FullMatch(reqs[r].method, reqs[r].path) = {}) => IsWrongQuery(reqs[r].out)

\* C1, amended: a request whose path is no registered path, with or without
\* its trailing slash toggled, is answered 404 with the plain-text body
\* "Sorry, wrong query"; a registered path used with an unregistered method is
\* answered 405, and a path that is registered once its trailing slash is
\* toggled is answered 307, neither of them rewritten.
C1_UnmatchedPath ==
    \A r \in Slots :
        LET q == reqs[r] IN
        Done(r) =>
            /\ (PathMatch(q.path) = {} /\ PathMatch(ToggleSlash(q.path)) = {})
                   => IsWrongQuery(q.out)
            /\ (FullMatch(q.method, q.path) = {} /\ PathMatch(q.path) # {})
                   => q.out = MethodNotAllowed
            /\ (PathMatch(q.path) = {} /\ PathMatch(ToggleSlash(q.path)) # {})
                   => q.out = SlashRedirect

C1_Witness ==
    \E r \in Slots :
        /\ Done(r)
        /\ reqs[r].method = "POST"
        /\ reqs[r].path = ItemPath
        /\ IsWrongQuery(reqs[r].out)

\* C2 as stated: a POST to /item/ whose body lacks price is answered 422, and
\* no store operation is issued for it.
C2_Original ==
    \A r \in Slots :
        LET q == reqs[r] IN
        (Done(r) /\ q.method = "POST" /\ q.path = ItemPath /\ q.body["price"].k = "absent")
            => (q.out.status = 422 /\ q.ops = <<>>)

\* C2, amended: a POST to /items/, the path the item create route is
\* registered at, whose body lacks price is answered 422 and never reaches
\* the handler, so no store operation is issued for it; the same POST to
\* /item/ matches no route and is answered 404, also without a store operation.
C2_MissingPrice ==
    \A r \in Slots :
        LET q == reqs[r] IN
        (q.pc # "idle" /\ q.method = "POST" /\ q.body["price"].k = "absent"
            /\ q.path \in {ItemsPath, ItemPath})
            => /\ q.pc \in {"pre", "post", "done"}
               /\ q.ops = <<>>
               /\ q.reply = NoReply
               /\ tables["items"] = seeded["items"]
               /\ Done(r) => q.out.status = (IF q.path = ItemsPath THEN 422 ELSE 404)

C2_Witness ==
    \E r \in Slots :
        /\ Done(r)
        /\ reqs[r].method = "POST"
        /\ reqs[r].path = ItemsPath
        /\ reqs[r].body["price"].k = "absent"
        /\ reqs[r].body["name"].k = "str"
        /\ reqs[r].out.status = 422

\* C3: for a valid Item draft without an id and a store that inserts the
\* submitted record and returns it with an id, create returns an entity that
\* equals the draft in every field but id, and whose id is set.
C3_CreateReturnsDraft ==
    \A r \in Slots :
        LET q == reqs[r] IN
        (Done(r) /\ Accepted(r) /\ q.endpoint = "create_item"
            /\ q.arg["id"] = Null /\ q.storeReply = "ok")
            => /\ q.out.status = 201
               /\ q.out.shape = "entity"
               /\ Len(q.out.ents) = 1
               /\ \A f \in ItemFields \ {"id"} : q.out.ents[1][f] = q.arg[f]
               /\ q.out.ents[1]["id"].k = "num"

C3_Witness ==
    \E r \in Slots :
        /\ Done(r)
        /\ reqs[r].endpoint = "create_item"
        /\ reqs[r].arg["id"] = Null
        /\ reqs[r].arg["tax"].k = "num"
        /\ reqs[r].storeReply = "ok"
        /\ reqs[r].out.status = 201

\* C4 as stated: when the store's insert returns zero records, POST /item/
\* ends in a 500-class response.
C4_Original ==
    \A r \in Slots :
        LET q == reqs[r] IN
        (Done(r) /\ q.method = "POST" /\ q.path = ItemPath /\ q.storeReply = "zero")
            => q.out.status \in ServerErrorClass

\* C4, amended: when the store's insert returns zero records, POST /items/
\* (the path the item create route is registered at) ends in a 500-class
\* response, never a 2xx one: the handler raises and the not-found middleware
\* re-raises instead of answering.
C4_EmptyInsert ==
    \A r \in Slots :
        LET q == reqs[r] IN
        (Done(r) /\ q.method = "POST" /\ q.path = ItemsPath /\ q.reply = DataReply(<<>>))
            => /\ q.out.status \in ServerErrorClass
               /\ q.out.status \notin SuccessClass
               /\ q.inner.kind = "exc"
               /\ q.mw.kind = "exc"

C4_Witness ==
    \E r \in Slots :
        /\ Done(r)
        /\ reqs[r].method = "POST"
        /\ reqs[r].path = ItemsPath
        /\ reqs[r].ops # <<>>
        /\ reqs[r].reply = DataReply(<<>>)
        /\ reqs[r].out = ServerError

\* C5: the middleware invokes the inner chain exactly once; what it returns
\* has the inner response's status; body and content type are replaced by the
\* fixed plain-text payload exactly when the inner status is 404, any other
\* inner response comes back unmodified, and an exception of the inner chain
\* is re-raised, not turned into a response.
C5_Middleware ==
    \A r \in Slots :
        LET q == reqs[r] IN
        /\ q.calls = (IF q.pc \in {"idle", "pre"} THEN 0 ELSE 1)
        /\ Done(r) =>
            /\ q.inner.kind \in {"resp", "exc"}
            /\ q.inner.kind = "exc" => q.mw.kind = "exc"
            /\ q.inner.kind = "resp" =>
                /\ q.mw.kind = "resp"
                /\ q.mw.resp.status = q.inner.resp.status
                /\ q.inner.resp.status = 404 =>
                      /\ q.mw.resp.ctype = "text/plain"
                      /\ q.mw.resp.shape = "text"
                      /\ q.mw.resp.text = "Sorry, wrong query"
                /\ q.inner.resp.status # 404 => q.mw.resp = q.inner.resp
                /\ (q.mw.resp # q.inner.resp) <=> (q.inner.resp.status = 404)

C5_Witness ==
    \E r \in Slots :
        /\ Done(r)
        /\ reqs[r].calls = 1
        /\ reqs[r].inner.kind = "resp"
        /\ reqs[r].inner.resp.status = 405
        /\ reqs[r].mw.resp = reqs[r].inner.resp

\* What the claims about validation speak of, read off a JSON body.
Required(model) == {f \in FieldsOf(model) : ~TypeOf(model, f).optional}

HasExtra(model, b) == \E f \in Keys \ FieldsOf(model) : b[f].k # "absent"

LacksRequired(model, b) == \E f \in Required(model) : b[f].k = "absent"

\* the value is of the declared JSON type
KindFits(ty, v) ==
    CASE ty.t = "str" -> v.k = "str"
      [] ty.t = "float" -> v.k = "num"
      [] ty.t = "int" -> v.k = "num" /\ v.n % 10 = 0

\* the value is of the declared type or a string that reads as one
Convertible(ty, v) ==
    \/ KindFits(ty, v)
    \/ /\ ty.t \in {"float", "int"}
       /\ v.k = "str"
       /\ v.s \in NumericStrings
       /\ KindFits(ty, Num(ParseNum(v.s)))

\* a field is given (null where a value is required included) and its value
\* does not convert to the declared type
Mistyped(model, b) ==
    \E f \in FieldsOf(model) :
        /\ b[f].k # "absent"
        /\ ~(b[f].k = "null" /\ TypeOf(model, f).optional)
        /\ ~Convertible(TypeOf(model, f), b[f])

\* a POST that the router hands to a create endpoint, and the model of its body
IsCreate(q) == q.method = "POST" /\ q.path \in {ItemsPath, UserPath}

BodyModel(q) == IF q.path = ItemsPath THEN "Item" ELSE "User"

\* C6 as stated: a create whose body has an extra field, lacks a required
\* field or has a mistyped field is answered 422 and issues no store insert.
C6_Original ==
    \A r \in Slots :
        LET q == reqs[r]
            m == BodyModel(q)
        IN (q.pc # "idle" /\ IsCreate(q)
              /\ (HasExtra(m, q.body) \/ LacksRequired(m, q.body) \/ Mistyped(m, q.body)))
             => /\ q.ops = <<>>
                /\ Done(r) => q.out.status = 422

\* C6, amended: a create whose body lacks a required field or has a field
\* whose value does not convert to its declared type is answered 422 before
\* the handler body runs, so no store insert is issued for it; every other
\* body reaches the service, be it with an extra field (which is ignored),
\* with an id, or with a numeric string for a number (which is converted).
C6_Validation ==
    \A r \in Slots :
        LET q == reqs[r]
            m == BodyModel(q)
        IN (q.pc \notin {"idle", "pre"} /\ IsCreate(q)) =>
             IF LacksRequired(m, q.body) \/ Mistyped(m, q.body)
             THEN /\ q.pc \in {"post", "done"}
                  /\ q.inner = Returned(Unprocessable)
                  /\ q.ops = <<>>
                  /\ q.reply = NoReply
                  /\ Done(r) => q.out.status = 422
             ELSE /\ Accepted(r)
                  /\ q.pc \in {"reply", "post", "done"} => Len(q.ops) = 1
                  /\ Done(r) => q.out.status # 422

C6_Witness ==
    \E r \in Slots :
        /\ Done(r)
        /\ reqs[r].method = "POST"
        /\ reqs[r].path = UserPath
        /\ reqs[r].body["age"] = Str("x")
        /\ reqs[r].ops = <<>>
        /\ reqs[r].out.status = 422

\* C7: the record an accepted create sends to the store insert carries no id.
C7_NoClientId ==
    \A r \in Slots :
        \A i \in DOMAIN reqs[r].ops :
            reqs[r].ops[i].op = "insert" => reqs[r].ops[i].rec["id"].k = "absent"

\* C8: GET /items/ on an empty table is answered 200 with an empty JSON
\* sequence, and the middleware leaves the response as it is.
C8_EmptyList ==
    \A r \in Slots :
        LET q == reqs[r] IN
        (Done(r) /\ q.method = "GET" /\ q.path = ItemsPath /\ q.storeReply = "ok"
            /\ tables["items"] = <<>>)
            => /\ q.out.status = 200
               /\ q.out.ctype = JsonType
               /\ q.out.shape = "list"
               /\ q.out.ents = <<>>
               /\ q.mw = q.inner

C8_Witness ==
    \E r \in Slots :
        /\ Done(r)
        /\ reqs[r].endpoint = "read_items"
        /\ reqs[r].ops # <<>>
        /\ tables["items"] = <<>>
        /\ reqs[r].out.status = 200
        /\ reqs[r].out.ents = <<>>

\* a stored record that converts to the model: every required field is set
\* and every set field converts to its declared type
Converts(model, row) == ~LacksRequired(model, row) /\ ~Mistyped(model, row)

\* C9: a list is all-or-nothing and keeps the store's order: when every
\* record read converts, the response has one entity per record, in the order
\* read; when one record lacks a required field or has a field that does not
\* convert, the response is of the 500 class and carries no entity.
C9_ListAllOrNothing ==
    \A r \in Slots :
        LET q == reqs[r]
            m == ModelOf(q.endpoint)
            rows == q.reply.data
        IN (Done(r) /\ q.endpoint \in ListEndpoints /\ q.reply.kind = "data") =>
             /\ rows = SubSeq(tables[TableOf(q.endpoint)], 1, Len(rows))
             /\ Len(rows) >= Len(seeded[TableOf(q.endpoint)])
             /\ IF \A i \in DOMAIN rows : Converts(m, rows[i])
                THEN /\ q.out.status = 200
                     /\ q.out.shape = "list"
                     /\ Len(q.out.ents) = Len(rows)
                     /\ \A i \in DOMAIN rows : \A f \in FieldsOf(m) :
                           (rows[i][f].k = "null" \/ KindFits(TypeOf(m, f), rows[i][f]))
                               => q.out.ents[i][f] = rows[i][f]
                ELSE /\ q.out.status \in ServerErrorClass
                     /\ q.out.ents = <<>>

C9_Witness ==
    \E r \in Slots :
        /\ Done(r)
        /\ reqs[r].endpoint = "read_items"
        /\ reqs[r].reply = DataReply(<<GoodItem1, NamelessItem>>)
        /\ reqs[r].out = ServerError

\* the requests whose insert the store served, per table
InsertedBy(t) ==
    {r \in Slots : /\ reqs[r].ops # <<>>
                   /\ reqs[r].ops[1] = [op |-> "insert", table |-> t,
                                        rec |-> DictExcludeNone(reqs[r].arg)]
                   /\ reqs[r].reply.kind = "data"
                   /\ reqs[r].reply.data # <<>>}

\* C10: whatever the interleaving, a request issues at most one store
\* operation: an accepted create one insert into the table of its resource,
\* a list one read of its table, a rejected (422) or unmatched (404) request
\* none; each table has grown by one record per served insert; a 201
\* response carries the record its own insert made; and the status of a
\* request is settled by the request and the store's answer to it.
C10_OneStoreOp ==
    /\ \A r \in Slots :
        LET q == reqs[r]
            t == IF q.path \in {ItemsPath, ItemPath} THEN "items" ELSE "users"
            m == IF t = "items" THEN "Item" ELSE "User"
        IN /\ Len(q.ops) <= 1
           /\ (Accepted(r) /\ q.pc \in {"reply", "post", "done"}) =>
                 /\ Len(q.ops) = 1
                 /\ q.ops[1].op = "insert"
                 /\ q.ops[1].table = t
           /\ (q.endpoint \in ListEndpoints /\ q.pc \in {"reply", "post", "done"}) =>
                 /\ Len(q.ops) = 1
                 /\ q.ops[1].op = "select"
                 /\ q.ops[1].table = t
                 /\ q.pos = 0
           /\ (Done(r) /\ q.out.status \in {404, 422}) => (q.ops = <<>> /\ q.pos = 0)
           /\ (Done(r) /\ q.out.status = 201) =>
                 /\ r \in InsertedBy(t)
                 /\ q.pos \in (Len(seeded[t]) + 1)..Len(tables[t])
                 /\ \A f \in FieldsOf(m) : q.out.ents[1][f] = tables[t][q.pos][f]
                 /\ \A f \in FieldsOf(m) \ {"id"} : q.out.ents[1][f] = q.arg[f]
                 /\ \A r2 \in InsertedBy(t) \ {r} : reqs[r2].pos # q.pos
    /\ \A t \in Tables : Len(tables[t]) = Len(seeded[t]) + Cardinality(InsertedBy(t))
    /\ \A r1, r2 \in Slots :
        (/\ Done(r1) /\ Done(r2)
         /\ reqs[r1].method = reqs[r2].method
         /\ reqs[r1].path = reqs[r2].path
         /\ reqs[r1].body = reqs[r2].body
         /\ reqs[r1].storeReply = reqs[r2].storeReply)
            => reqs[r1].out.status = reqs[r2].out.status

C10_Witness ==
    \E r1, r2 \in Slots :
        /\ r1 # r2
        /\ Done(r1) /\ Done(r2)
        /\ reqs[r1].endpoint = "create_item" /\ reqs[r2].endpoint = "create_item"
        /\ reqs[r1].out.status = 201 /\ reqs[r2].out.status = 201
        /\ reqs[r1].pos < reqs[r2].pos
        /\ reqs[r1].calls = 1 /\ reqs[r2].calls = 1

====
